---- MODULE Spec2Model ----
(***************************************************************************)
(* GNet: the receivers that drain a non-blocking UDP socket.               *)
(*                                                                         *)
(*   ServerUdpEndpoint  src/src/endpoint/server.rs   (Mutex, bucket map)    *)
(*   ClientSocket       src/src/connection/socket.rs (optional id filter)   *)
(*   ServerSocket       src/src/connection/socket.rs (bucket map)           *)
(*                                                                         *)
(* and the connection engine on top of them:                               *)
(*                                                                         *)
(*   Connection::connect, PendingConnection, Connection                    *)
(*                      src/src/connection/connection.rs                   *)
(*   generic_transmit_test  src/src/endpoint/transmit/test.rs              *)
(*                                                                         *)
(* One object is constructed per behaviour (variable kind; kind            *)
(* "IoError" is the From<IoError> conversions on their own).  A receiver's *)
(* callers are threads.  A recv_all call is split at the places where the  *)
(* code touches shared state: taking the lock, every iteration of the      *)
(* receive loop, and the final take of the caller's bucket.                *)
(*                                                                         *)
(* Byte vectors are kept as sequences of PACKET_SIZE-byte chunks: every    *)
(* Vec<u8> of the receivers grows and shrinks by PACKET_SIZE bytes only.   *)
(* A chunk remembers the datagram it was received from (uid, wire length). *)
(***************************************************************************)
EXTENDS Integers, Sequences, FiniteSets, TLC

\* ------------------------------------------------------------------ bounds
\* At most MaxDatagrams datagrams ever arrive.
MaxDatagrams == 2

\* 0 is the id of handshake traffic, 1 an id of an established connection.
ConnectionIds == {0, 1}
Threads == {1, 2}
Receivers == {"ServerUdpEndpoint", "ClientSocket", "ServerSocket"}
Kinds == Receivers \cup {"IoError", "Connection::connect", "PendingConnection",
                          "Connection", "generic_transmit_test"}

\* --------------------------------------------------- packet module (absent)
\* crate::packet is not among the source files; these follow spec.md 3 and 6.
PACKET_SIZE == 1200
REQUEST_CONNECTION == 1
HashSeed == 5
HashMod == 7

\* The keyed hash of a packet's bytes before the trailing hash field.
build_hasher(connection_id, flags) ==
    (HashSeed + 3 * connection_id + 5 * flags) % HashMod

\* packet::valid_hash: the trailing hash equals the keyed hash of the prefix.
valid_hash(pkt) == pkt.hash = build_hasher(pkt.connection_id, pkt.flags)

\* packet::get_header(..).connection_id
get_header(pkt) == [connection_id |-> pkt.connection_id, flags |-> pkt.flags]

\* ------------------------------------------------------------ plain values
NoneId == 0 - 1                 \* Option<ConnectionId>::None
NoThread == 0
NoError == "NoError"
IoErrorKinds == {"WouldBlock", "ConnectionReset", "Other"}

NoPacket == [connection_id |-> NoneId, flags |-> 0, hash |-> 0]
\* bytes the caller's buffer held before the call
PriorChunk == [src |-> "prior", uid |-> 0, len |-> PACKET_SIZE, pkt |-> NoPacket]
\* repeat(0).take(PACKET_SIZE)
ZeroChunk == [src |-> "zero", uid |-> 0, len |-> PACKET_SIZE, pkt |-> NoPacket]
\* the bytes recv_from wrote for datagram d (len: its length on the wire)
WireChunk(d) == [src |-> "wire", uid |-> d.uid, len |-> d.len, pkt |-> d.pkt]

Min(a, b) == IF a < b THEN a ELSE b
Bytes(chunks) == PACKET_SIZE * Len(chunks)
Uids(chunks) == {chunks[i].uid : i \in 1 .. Len(chunks)}
Range(f) == {f[x] : x \in DOMAIN f}

\* Results of the operations.
Ok(n) == [tag |-> "Ok", n |-> n, kind |-> NoError]
NoPendingPackets == [tag |-> "NoPendingPackets", n |-> 0, kind |-> NoError]
Io(k) == [tag |-> "Io", n |-> 0, kind |-> k]
Panic == [tag |-> "Panic", n |-> 0, kind |-> NoError]
NoResult == [tag |-> "None", n |-> 0, kind |-> NoError]

IdleCall == [pc |-> "idle", connection_id |-> NoneId, buffer |-> <<>>,
             original_length |-> 0, received_bytes |-> 0, drained |-> 0]

NoReturn == [op |-> "none", connection_id |-> NoneId, result |-> NoResult,
             buffer |-> <<>>, original_length |-> 0, drained |-> 0, error |-> NoError]

VARIABLES
    kind,         \* which receiver was constructed
    socket,       \* datagrams queued in the UDP socket, oldest first
    sockErr,      \* asynchronous error pending on the socket (SO_ERROR)
    connections,  \* HashMap<ConnectionId, Vec<u8>>
    owner,        \* thread inside the Mutex / holding the &mut borrow
    poisoned,     \* the Mutex was poisoned by a panic of its holder
    call,         \* per thread: the recv_all call in progress
    ret,          \* what the step just taken returned to its caller, if anything
    nextUid,      \* number of datagrams that arrived so far, plus 1
    admitted,     \* history: ids allowed and not blocked since
    delivered,    \* history: per datagram, how often it was handed to a caller
    dropped,      \* history: uids a drain received and did not queue
    discarded,    \* history: uids removed from a bucket by allow or block
    now,          \* Instant::now()
    endpoint,     \* the Transmit handed to Connection::connect
    pending,      \* the PendingConnection the last connect returned
    connection,   \* the Connection constructed by Connection::opened
    net,          \* datagrams on their way to the local end, next first
    api,          \* what the connection call just made returned
    written,      \* history: bytes passed to write_bytes_to_stream so far
    test          \* generic_transmit_test: its position and locals

\* The state of the connection engine and of generic_transmit_test.
engine == <<now, endpoint, pending, connection, net, api, written, test>>

vars == <<kind, socket, sockErr, connections, owner, poisoned, call, ret,
          nextUid, admitted, delivered, dropped, discarded, engine>>

\* The state of the receivers.
receiver == <<socket, sockErr, connections, owner, poisoned, call, ret,
              nextUid, admitted, delivered, dropped, discarded>>

history == <<admitted, delivered, dropped, discarded>>

\* Faulty variant of HashMap_remove: the entry stays, with its queue emptied.
HashMap_remove_keeps_entry(m, k) ==
    [i \in DOMAIN m |-> IF i = k THEN <<>> ELSE m[i]]

\* ---------------------------------------------------------------- HashMap
HashMap_new == <<>>
HashMap_contains(m, k) == k \in DOMAIN m
HashMap_insert(m, k, v) == [i \in DOMAIN m \cup {k} |-> IF i = k THEN v ELSE m[i]]
HashMap_remove(m, k) == [i \in DOMAIN m \ {k} |-> m[i]]

\* Everything queued in some bucket.
Queued == UNION {Uids(connections[i]) : i \in DOMAIN connections}

\* Faulty variant of recv_from: the datagram is read and left in the socket.
recv_from_peeks(q, e) ==
    IF e # NoError
      THEN {[ok |-> FALSE, kind |-> e, size |-> 0, rest |-> q]}
    ELSE IF q = <<>>
      THEN {[ok |-> FALSE, kind |-> "WouldBlock", size |-> 0, rest |-> q]}
    ELSE {[ok |-> TRUE, kind |-> NoError,
           size |-> Min(Head(q).len, PACKET_SIZE), rest |-> q]}

\* ------------------------------------------------------------- the socket
\* UdpSocket::recv_from / recv on a non-blocking socket with a buffer of
\* PACKET_SIZE bytes: the outcomes the platform can produce.  A pending
\* socket error is reported (and cleared) first.  An empty queue gives
\* WouldBlock.  A datagram longer than the buffer is cut to the buffer's
\* length (recvfrom(2)) or fails with an error that consumes it (WSAEMSGSIZE).
recv_from(q, e) ==
    IF e # NoError
      THEN {[ok |-> FALSE, kind |-> e, size |-> 0, rest |-> q]}
    ELSE IF q = <<>>
      THEN {[ok |-> FALSE, kind |-> "WouldBlock", size |-> 0, rest |-> q]}
    ELSE {[ok |-> TRUE, kind |-> NoError,
           size |-> Min(Head(q).len, PACKET_SIZE), rest |-> Tail(q)]}
         \cup (IF Head(q).len > PACKET_SIZE
                 THEN {[ok |-> FALSE, kind |-> "Other", size |-> 0, rest |-> Tail(q)]}
                 ELSE {})

\* The uids a recv_from outcome took out of the socket.
Consumed(o) == Uids(socket) \ Uids(o.rest)

\* A peer's datagram reaches the socket.
Shapes == {"sealed", "corrupt", "short", "long"}
Datagram(uid, connection_id, shape) ==
    LET flags == IF connection_id = 0 THEN REQUEST_CONNECTION ELSE 0
        h == build_hasher(connection_id, flags)
    IN [uid |-> uid,
        len |-> CASE shape = "short" -> PACKET_SIZE - 1
                  [] shape = "long" -> PACKET_SIZE + 1
                  [] OTHER -> PACKET_SIZE,
        pkt |-> [connection_id |-> connection_id, flags |-> flags,
                 hash |-> IF shape = "corrupt" THEN (h + 1) % HashMod ELSE h]]

Deliver ==
    /\ kind \in Receivers
    /\ nextUid <= MaxDatagrams
    /\ \E connection_id \in ConnectionIds, shape \in Shapes :
          socket' = Append(socket, Datagram(nextUid, connection_id, shape))
    /\ nextUid' = nextUid + 1
    /\ ret' = NoReturn
    /\ UNCHANGED <<engine, kind, sockErr, connections, owner, poisoned, call, history>>

\* The network reports an error for the socket (e.g. ICMP port unreachable).
\* Only recv_from reads it, so it is raised while some call is receiving.
RaiseError ==
    /\ \E t \in Threads : call[t].pc = "loop"
    /\ sockErr = NoError
    /\ sockErr' = "ConnectionReset"
    /\ ret' = NoReturn
    /\ UNCHANGED <<engine, kind, socket, connections, owner, poisoned, call, nextUid, history>>

\* Faulty variant of MutexFree: lock() that does not wait for the holder.
MutexFree_never_waits == TRUE

\* ------------------------------------------------------------------ Mutex
\* Mutex::lock blocks until no thread holds the lock.
MutexFree == owner = NoThread

\* A call that ended: what the caller sees.  error is the substrate error the
\* call met, if any.
Returned(op, id, result, c, error) ==
    [op |-> op, connection_id |-> id, result |-> result, buffer |-> c.buffer,
     original_length |-> c.original_length, drained |-> c.drained, error |-> error]

\* The caller's buffer when the call starts: empty, or holding earlier bytes.
PriorBuffers == {<<>>, <<PriorChunk>>}

StartCall(connection_id, buffer, original_length) ==
    [pc |-> "loop", connection_id |-> connection_id, buffer |-> buffer,
     original_length |-> original_length, received_bytes |-> 0, drained |-> 0]

\* The chunks of `appended` counted into the delivery history.
Deliveries(appended) ==
    [u \in DOMAIN delivered |->
        delivered[u] + Cardinality({i \in 1 .. Len(appended) : appended[i].uid = u})]

\* The condition guarding every append of a received datagram
\* (server.rs 62, socket.rs 89 and 127).
accepted(packet_size, pkt) == packet_size = PACKET_SIZE /\ valid_hash(pkt)

\* ------------------------------------------------------ connection engine
\* size_of::<packet::PacketHeader>(): the fields of spec.md 3 before the
\* payload, 4+2+2+8+1+4+2 bytes.
HeaderSize == 23
ACCEPT_CONNECTION == 2
\* spec.md 6: the Open -> Lost threshold, in ticks of the clock.
timeout == 1
\* The clock stops at MaxTime.
MaxTime == 2

\* Transmit::max_datagram_length of the endpoint handed to connect.
MaxDatagramLengths == {576, PACKET_SIZE}
Addrs == {"remote", "elsewhere"}
\* random::<u32>()
Nonces == {4021, 4022}

\* A Vec<u8> payload: its length and its content.
NoPayload == [len |-> 0, data |-> ""]
Payloads(max_datagram_length) ==
    {NoPayload}
      \cup {[len |-> n, data |-> d] :
              n \in {2, max_datagram_length - HeaderSize,
                     max_datagram_length - HeaderSize + 1},
              d \in {"hi"}}

\* PacketHeader::default()
DefaultHeader ==
    [connection_id |-> 0, packet_index |-> 0, flags |-> 0, prelude |-> 0,
     payload_length |-> 0, hash |-> 0]

\* PacketHeader::request_connection(handshake_id, payload_length)
PacketHeader_request_connection(handshake_id, payload_length) ==
    [DefaultHeader EXCEPT !.flags = REQUEST_CONNECTION,
                          !.prelude = handshake_id,
                          !.payload_length = payload_length]

\* packet::write_header and packet::write_data on a packet buffer, kept as
\* its length, the header it holds and the payload bytes behind the header.
write_header(packet_buffer, header) == [packet_buffer EXCEPT !.header = header]
write_data(packet_buffer, data, offset) == [packet_buffer EXCEPT !.payload = data]

\* Option<PendingConnection>::None and Option<Connection>::None
NonePending ==
    [some |-> FALSE, remote |-> "", packet_buffer_len |-> 0,
     last_sent_packet_time |-> 0, last_communication_time |-> 0,
     payload |-> NoPayload, handshake_id |-> 0]
NoneConnection ==
    [some |-> FALSE, connection_id |-> NoneId, remote |-> "", status |-> "",
     last_sent_packet_time |-> 0, last_received_packet_time |-> 0,
     received_packet_ack_id |-> 0, received_packet_ack_mask |-> {}]

\* No connection call was just made.
NoApi ==
    [op |-> "none", result |-> "none", remote |-> "", payload |-> NoPayload,
     bytes |-> <<>>, error |-> NoError]

\* ------------------------------------------------- generic_transmit_test
\* test.rs 8-12
DATAGRAMS ==
    <<<<"G", "N", "E", "T", " ", "T", "R", "A", "N", "S", "M", "I",
        "T", " ", "T", "E", "S", "T", " ", "F", "I", "R", "S", "T",
        " ", "D", "A", "T", "A", "G", "R", "A", "M">>,
      <<"G", "N", "E", "T", " ", "T", "R", "A", "N", "S", "M", "I",
        "T", " ", "T", "E", "S", "T", " ", "S", "E", "C", "O", "N",
        "D", " ", "D", "A", "T", "A", "G", "R", "A", "M">>,
      <<"G", "N", "E", "T", " ", "T", "R", "A", "N", "S", "M", "I",
        "T", " ", "T", "E", "S", "T", " ", "T", "H", "I", "R", "D",
        " ", "D", "A", "T", "A", "G", "R", "A", "M">>>>

\* test.rs 19
max(a, b) == IF a > b THEN a ELSE b
test_max_datagram_length ==
    max(max(max(0, Len(DATAGRAMS[1])), Len(DATAGRAMS[2])), Len(DATAGRAMS[3]))

\* The max_datagram_length() of the transmitters handed to the test.
TestDatagramLengths == {Len(DATAGRAMS[1]), Len(DATAGRAMS[2]) + 2}
zeros(n) == [i \in 1 .. n |-> "0"]

NoTest ==
    [pc |-> "none", sender_max |-> 0, receiver_max |-> 0, buffer |-> <<>>,
     recv_result |-> <<0, "">>, failed_at |-> "", sends |-> <<>>, got |-> <<>>,
     faulted |-> FALSE]

\* Faulty variant of payload_too_large: a payload that exactly fills the
\* datagram is refused as well.
payload_too_large_at_bound(payload_len, max_payload_length) ==
    payload_len >= max_payload_length

\* connection.rs 105
payload_too_large(payload_len, max_payload_length) ==
    payload_len > max_payload_length

\* connection.rs 109-117: the request as connect writes it into packet_buffer.
request_packet(handshake_id, payload) ==
    LET resized == [len |-> payload.len + HeaderSize, header |-> DefaultHeader,
                    payload |-> NoPayload]
        headed == write_header(resized,
                    PacketHeader_request_connection(handshake_id, payload.len % 65536))
    IN IF payload.len # 0 THEN write_data(headed, payload, 0) ELSE headed

\* Faulty variant of PendingConnection_new: the handshake id is not kept.
PendingConnection_without_handshake_id(remote, communication_time, payload, handshake_id) ==
    [some |-> TRUE, remote |-> remote, packet_buffer_len |-> 0,
     last_sent_packet_time |-> communication_time,
     last_communication_time |-> communication_time,
     payload |-> payload, handshake_id |-> 0]

\* connection.rs 119-129
PendingConnection_new(remote, communication_time, payload, handshake_id) ==
    [some |-> TRUE, remote |-> remote, packet_buffer_len |-> 0,
     last_sent_packet_time |-> communication_time,
     last_communication_time |-> communication_time,
     payload |-> payload, handshake_id |-> handshake_id]

\* The datagram connect hands to send_to for a packet buffer.
request_datagram(remote, packet_buffer) ==
    [addr |-> remote, len |-> packet_buffer.len,
     header |-> packet_buffer.header, payload |-> packet_buffer.payload]

\* The payloads connect sends through an endpoint.
Sendable(max_datagram_length) ==
    {p \in Payloads(max_datagram_length) :
        ~payload_too_large(p.len, max_datagram_length - HeaderSize)}

\* A PendingConnection starts as some successful connect returned it.
EngineInit ==
    /\ now = 0
    /\ \E m \in IF kind \in {"Connection::connect", "PendingConnection"}
                  THEN MaxDatagramLengths ELSE {PACKET_SIZE} :
          IF kind = "PendingConnection"
            THEN \E remote \in Addrs, payload \in Sendable(m), handshake_id \in Nonces :
                    /\ endpoint = [max_datagram_length |-> m,
                                   sent |-> <<request_datagram(remote,
                                                request_packet(handshake_id, payload))>>]
                    /\ pending = PendingConnection_new(remote, now, payload, handshake_id)
            ELSE /\ endpoint = [max_datagram_length |-> m, sent |-> <<>>]
                 /\ pending = NonePending
    /\ connection = NoneConnection
    /\ net = <<>>
    /\ api = NoApi
    /\ written = <<>>
    /\ test \in IF kind = "generic_transmit_test"
                  THEN {[NoTest EXCEPT !.pc = "asserts", !.sender_max = s,
                                       !.receiver_max = r] :
                          s \in TestDatagramLengths, r \in TestDatagramLengths}
                  ELSE {NoTest}

\* server.rs 114-118 (open_new) and socket.rs 77-80 (new), as initial states.
\* A ServerSocket starts with any set of connections, each with an empty queue.
Init ==
    /\ kind \in Kinds
    /\ socket = <<>>
    /\ sockErr = NoError
    /\ connections \in IF kind = "ServerSocket"
                         THEN {[i \in S |-> <<>>] : S \in SUBSET ConnectionIds}
                         ELSE {HashMap_new}
    /\ owner = NoThread
    /\ poisoned = FALSE
    /\ call = [t \in Threads |-> IdleCall]
    /\ ret = NoReturn
    /\ nextUid = 1
    /\ admitted = {}
    /\ delivered = [u \in 1 .. MaxDatagrams |-> 0]
    /\ dropped = {}
    /\ discarded = {}
    /\ EngineInit

\* Faulty variant of route: the bucket of the call's own id (connection_id not
\* shadowed by the header's).
route_by_argument(m, connection_id, chunk) ==
    IF HashMap_contains(m, connection_id)
      THEN [m EXCEPT ![connection_id] = Append(@, chunk)]
      ELSE m

\* Faulty variant of route: the packet is put in front of the queue.
route_in_front(m, connection_id, chunk) ==
    LET header_id == get_header(chunk.pkt).connection_id
    IN IF HashMap_contains(m, header_id)
         THEN [m EXCEPT ![header_id] = <<chunk>> \o @]
         ELSE m

\* Faulty variant of take: the queue is copied to the caller and not cleared.
take_without_clear(m, connection_id, buffer) ==
    IF ~HashMap_contains(m, connection_id)
      THEN [result |-> Panic, connections |-> m, buffer |-> buffer]
    ELSE IF m[connection_id] = <<>>
      THEN [result |-> NoPendingPackets, connections |-> m, buffer |-> buffer]
    ELSE [result |-> Ok(Bytes(m[connection_id])),
          connections |-> m,
          buffer |-> buffer \o m[connection_id]]

\* ------------------------------------------------------ ServerUdpEndpoint
\* server.rs 64-68: the header's connection id (shadowing the argument)
\* picks the bucket; without a bucket the packet is not kept.
route(m, connection_id, chunk) ==
    LET header_id == get_header(chunk.pkt).connection_id
    IN IF HashMap_contains(m, header_id)
         THEN [m EXCEPT ![header_id] = Append(@, chunk)]
         ELSE m

\* server.rs 78-86: get_mut(..).unwrap(), then hand over and clear the queue.
take(m, connection_id, buffer) ==
    IF ~HashMap_contains(m, connection_id)
      THEN [result |-> Panic, connections |-> m, buffer |-> buffer]
    ELSE IF m[connection_id] = <<>>
      THEN [result |-> NoPendingPackets, connections |-> m, buffer |-> buffer]
    ELSE [result |-> Ok(Bytes(m[connection_id])),
          connections |-> [m EXCEPT ![connection_id] = <<>>],
          buffer |-> buffer \o m[connection_id]]

\* server.rs 44-46
ServerUdpEndpoint_send_to(t) ==
    /\ kind = "ServerUdpEndpoint" /\ call[t].pc = "idle" /\ MutexFree
    /\ \E r \in {Ok(PACKET_SIZE), Io("Other")} :
          ret' = Returned("send_to", NoneId, IF poisoned THEN Panic ELSE r,
                          IdleCall, NoError)
    /\ UNCHANGED <<engine, kind, socket, sockErr, connections, owner, poisoned, call,
                   nextUid, history>>

\* server.rs 96-99
ServerUdpEndpoint_allow_connection_id(t, connection_id) ==
    /\ kind = "ServerUdpEndpoint" /\ call[t].pc = "idle" /\ MutexFree
    /\ IF poisoned
         THEN /\ ret' = Returned("allow_connection_id", NoneId, Panic, IdleCall, NoError)
              /\ UNCHANGED <<connections, admitted, discarded>>
         ELSE /\ connections' = HashMap_insert(connections, connection_id, <<>>)
              /\ admitted' = admitted \cup {connection_id}
              /\ discarded' = discarded \cup
                     (IF HashMap_contains(connections, connection_id)
                        THEN Uids(connections[connection_id]) ELSE {})
              /\ ret' = NoReturn
    /\ UNCHANGED <<engine, kind, socket, sockErr, owner, poisoned, call, nextUid,
                   delivered, dropped>>

\* server.rs 101-104
ServerUdpEndpoint_block_connection_id(t, connection_id) ==
    /\ kind = "ServerUdpEndpoint" /\ call[t].pc = "idle" /\ MutexFree
    /\ IF poisoned
         THEN /\ ret' = Returned("block_connection_id", NoneId, Panic, IdleCall, NoError)
              /\ UNCHANGED <<connections, admitted, discarded>>
         ELSE /\ connections' = HashMap_remove(connections, connection_id)
              /\ admitted' = admitted \ {connection_id}
              /\ discarded' = discarded \cup
                     (IF HashMap_contains(connections, connection_id)
                        THEN Uids(connections[connection_id]) ELSE {})
              /\ ret' = NoReturn
    /\ UNCHANGED <<engine, kind, socket, sockErr, owner, poisoned, call, nextUid,
                   delivered, dropped>>

\* server.rs 55-58: lock, remember the length, add PACKET_SIZE zero bytes.
ServerUdpEndpoint_recv_all_lock(t, connection_id, prior) ==
    /\ kind = "ServerUdpEndpoint" /\ call[t].pc = "idle" /\ MutexFree
    /\ IF poisoned
         THEN /\ ret' = Returned("recv_all", connection_id, Panic,
                                 StartCall(connection_id, prior, Len(prior)), NoError)
              /\ UNCHANGED <<owner, call>>
         ELSE /\ owner' = t
              /\ call' = [call EXCEPT ![t] =
                             StartCall(connection_id, prior \o <<ZeroChunk>>, Len(prior))]
              /\ ret' = NoReturn
    /\ UNCHANGED <<engine, kind, socket, sockErr, connections, poisoned, nextUid, history>>

\* server.rs 59-76: one iteration of the receive loop.
ServerUdpEndpoint_recv_all_loop(t) ==
    /\ kind = "ServerUdpEndpoint" /\ call[t].pc = "loop"
    /\ \E o \in recv_from(socket, sockErr) :
        LET c == call[t] IN
        /\ socket' = o.rest
        /\ sockErr' = NoError
        /\ IF o.ok
             THEN LET chunk == WireChunk(Head(socket)) IN
                  /\ call' = [call EXCEPT ![t].buffer = [@ EXCEPT ![Len(@)] = chunk],
                                          ![t].drained = @ + 1]
                  /\ connections' = IF accepted(o.size, chunk.pkt)
                                       THEN route(connections, c.connection_id, chunk)
                                       ELSE connections
                  /\ dropped' = IF connections' = connections
                                   THEN dropped \cup {chunk.uid} ELSE dropped
                  /\ ret' = NoReturn
                  /\ UNCHANGED owner
             ELSE IF o.kind = "WouldBlock"
             THEN /\ call' = [call EXCEPT ![t].pc = "take"]
                  /\ ret' = NoReturn
                  /\ UNCHANGED <<connections, dropped, owner>>
             ELSE /\ ret' = Returned("recv_all", c.connection_id, Io(o.kind), c, o.kind)
                  /\ call' = [call EXCEPT ![t] = IdleCall]
                  /\ owner' = NoThread
                  /\ dropped' = dropped \cup Consumed(o)
                  /\ UNCHANGED connections
    /\ UNCHANGED <<engine, kind, poisoned, nextUid, admitted, delivered, discarded>>

\* server.rs 77-86: drop the scratch bytes, then take the caller's bucket.
ServerUdpEndpoint_recv_all_take(t) ==
    /\ kind = "ServerUdpEndpoint" /\ call[t].pc = "take"
    /\ LET c == call[t]
           truncated == SubSeq(c.buffer, 1, c.original_length)
           r == take(connections, c.connection_id, truncated)
       IN /\ connections' = r.connections
          /\ ret' = Returned("recv_all", c.connection_id, r.result,
                             [c EXCEPT !.buffer = r.buffer], NoError)
          /\ poisoned' = (poisoned \/ r.result = Panic)
          /\ delivered' = Deliveries(SubSeq(r.buffer, Len(truncated) + 1, Len(r.buffer)))
    /\ call' = [call EXCEPT ![t] = IdleCall]
    /\ owner' = NoThread
    /\ UNCHANGED <<engine, kind, socket, sockErr, nextUid, admitted, dropped, discarded>>

ServerUdpEndpoint_step(t) ==
    \/ ServerUdpEndpoint_send_to(t)
    \/ \E id \in ConnectionIds : ServerUdpEndpoint_allow_connection_id(t, id)
    \/ \E id \in ConnectionIds : ServerUdpEndpoint_block_connection_id(t, id)
    \/ \E id \in ConnectionIds, prior \in PriorBuffers :
          ServerUdpEndpoint_recv_all_lock(t, id, prior)
    \/ ServerUdpEndpoint_recv_all_loop(t)
    \/ ServerUdpEndpoint_recv_all_take(t)

\* Faulty variant of ClientSocket_result: Ok also when nothing was received.
ClientSocket_result_ok_when_empty(kind_of_error, received_bytes) ==
    IF kind_of_error = "WouldBlock"
      THEN IF received_bytes >= 0 THEN Ok(received_bytes) ELSE NoPendingPackets
      ELSE Io(kind_of_error)

\* Faulty variant of wanted: the connection id filter is ignored.
wanted_whatever_id(filter, pkt) == TRUE

\* ----------------------------------------------------------- ClientSocket
\* socket.rs 91-99: with Some(id) only packets of that id are appended.
wanted(filter, pkt) ==
    IF filter # NoneId
      THEN filter = get_header(pkt).connection_id
      ELSE TRUE

\* socket.rs 102-109: the value the loop breaks with on an error of `kind`.
ClientSocket_result(kind_of_error, received_bytes) ==
    IF kind_of_error = "WouldBlock"
      THEN IF received_bytes > 0 THEN Ok(received_bytes) ELSE NoPendingPackets
      ELSE Io(kind_of_error)

\* socket.rs 84-85: &mut self, received_bytes = 0.
ClientSocket_recv_all_begin(t, connection_id, prior) ==
    /\ kind = "ClientSocket" /\ call[t].pc = "idle" /\ owner = NoThread
    /\ owner' = t
    /\ call' = [call EXCEPT ![t] = StartCall(connection_id, prior, Len(prior))]
    /\ ret' = NoReturn
    /\ UNCHANGED <<engine, kind, socket, sockErr, connections, poisoned, nextUid, history>>

\* socket.rs 86-111: one iteration of the receive loop.
ClientSocket_recv_all_loop(t) ==
    /\ kind = "ClientSocket" /\ call[t].pc = "loop"
    /\ \E o \in recv_from(socket, sockErr) :
        LET c == call[t] IN
        /\ socket' = o.rest
        /\ sockErr' = NoError
        /\ IF o.ok
             THEN LET chunk == WireChunk(Head(socket))
                      keep == accepted(o.size, chunk.pkt) /\ wanted(c.connection_id, chunk.pkt)
                  IN /\ call' = [call EXCEPT
                                    ![t].drained = @ + 1,
                                    ![t].received_bytes = IF keep THEN @ + o.size ELSE @,
                                    ![t].buffer = IF keep THEN Append(@, chunk) ELSE @]
                     /\ delivered' = IF keep THEN Deliveries(<<chunk>>) ELSE delivered
                     /\ dropped' = IF keep THEN dropped ELSE dropped \cup {chunk.uid}
                     /\ ret' = NoReturn
                     /\ UNCHANGED owner
             ELSE /\ ret' = Returned("recv_all", c.connection_id,
                                     ClientSocket_result(o.kind, c.received_bytes), c, o.kind)
                  /\ call' = [call EXCEPT ![t] = IdleCall]
                  /\ owner' = NoThread
                  /\ dropped' = dropped \cup Consumed(o)
                  /\ UNCHANGED delivered
    /\ UNCHANGED <<engine, kind, connections, poisoned, nextUid, admitted, discarded>>

\* ----------------------------------------------------------- ServerSocket
\* socket.rs 129-130: connections.get_mut(&connection_id).unwrap().extend(..)
ServerSocket_route(m, chunk) ==
    LET header_id == get_header(chunk.pkt).connection_id
    IN IF HashMap_contains(m, header_id)
         THEN [panicked |-> FALSE, connections |-> [m EXCEPT ![header_id] = Append(@, chunk)]]
         ELSE [panicked |-> TRUE, connections |-> m]

\* socket.rs 139-147
ServerSocket_take(m, connection_id, buffer) ==
    IF ~HashMap_contains(m, connection_id)
      THEN [result |-> Panic, connections |-> m, buffer |-> buffer]
    ELSE IF m[connection_id] = <<>>
      THEN [result |-> NoPendingPackets, connections |-> m, buffer |-> buffer]
    ELSE [result |-> Ok(Bytes(m[connection_id])),
          connections |-> [m EXCEPT ![connection_id] = <<>>],
          buffer |-> buffer \o m[connection_id]]

\* socket.rs 169-172: Socket::Server(server) => server.lock().unwrap().recv_all(..)
ServerSocket_recv_all_lock(t, connection_id, prior) ==
    /\ kind = "ServerSocket" /\ call[t].pc = "idle" /\ MutexFree
    /\ IF poisoned
         THEN /\ ret' = Returned("recv_all", connection_id, Panic,
                                 StartCall(connection_id, prior, Len(prior)), NoError)
              /\ UNCHANGED <<owner, call>>
         ELSE /\ owner' = t
              /\ call' = [call EXCEPT ![t] = StartCall(connection_id, prior, Len(prior))]
              /\ ret' = NoReturn
    /\ UNCHANGED <<engine, kind, socket, sockErr, connections, poisoned, nextUid, history>>

\* socket.rs 122-138: one iteration of the receive loop.
ServerSocket_recv_all_loop(t) ==
    /\ kind = "ServerSocket" /\ call[t].pc = "loop"
    /\ \E o \in recv_from(socket, sockErr) :
        LET c == call[t] IN
        /\ socket' = o.rest
        /\ sockErr' = NoError
        /\ IF o.ok /\ ~accepted(o.size, Head(socket).pkt)
             THEN /\ call' = [call EXCEPT ![t].drained = @ + 1]
                  /\ dropped' = dropped \cup Consumed(o)
                  /\ ret' = NoReturn
                  /\ UNCHANGED <<connections, owner, poisoned>>
           ELSE IF o.ok
             THEN LET r == ServerSocket_route(connections, WireChunk(Head(socket))) IN
                  /\ connections' = r.connections
                  /\ poisoned' = (poisoned \/ r.panicked)
                  /\ IF r.panicked
                       THEN /\ ret' = Returned("recv_all", c.connection_id, Panic,
                                               [c EXCEPT !.drained = @ + 1], NoError)
                            /\ call' = [call EXCEPT ![t] = IdleCall]
                            /\ owner' = NoThread
                            /\ dropped' = dropped \cup Consumed(o)
                       ELSE /\ ret' = NoReturn
                            /\ call' = [call EXCEPT ![t].drained = @ + 1]
                            /\ UNCHANGED <<owner, dropped>>
           ELSE IF o.kind = "WouldBlock"
             THEN /\ call' = [call EXCEPT ![t].pc = "take"]
                  /\ ret' = NoReturn
                  /\ UNCHANGED <<connections, dropped, owner, poisoned>>
             ELSE /\ ret' = Returned("recv_all", c.connection_id, Io(o.kind), c, o.kind)
                  /\ call' = [call EXCEPT ![t] = IdleCall]
                  /\ owner' = NoThread
                  /\ dropped' = dropped \cup Consumed(o)
                  /\ UNCHANGED <<connections, poisoned>>
    /\ UNCHANGED <<engine, kind, nextUid, admitted, delivered, discarded>>

\* socket.rs 139-147: take the caller's queue.
ServerSocket_recv_all_take(t) ==
    /\ kind = "ServerSocket" /\ call[t].pc = "take"
    /\ LET c == call[t]
           r == ServerSocket_take(connections, c.connection_id, c.buffer)
       IN /\ connections' = r.connections
          /\ ret' = Returned("recv_all", c.connection_id, r.result,
                             [c EXCEPT !.buffer = r.buffer], NoError)
          /\ poisoned' = (poisoned \/ r.result = Panic)
          /\ delivered' = Deliveries(SubSeq(r.buffer, Len(c.buffer) + 1, Len(r.buffer)))
    /\ call' = [call EXCEPT ![t] = IdleCall]
    /\ owner' = NoThread
    /\ UNCHANGED <<engine, kind, socket, sockErr, nextUid, admitted, dropped, discarded>>

Socket_step(t) ==
    \/ \E id \in ConnectionIds \cup {NoneId}, prior \in PriorBuffers :
          ClientSocket_recv_all_begin(t, id, prior)
    \/ ClientSocket_recv_all_loop(t)
    \/ \E id \in ConnectionIds, prior \in PriorBuffers :
          ServerSocket_recv_all_lock(t, id, prior)
    \/ ServerSocket_recv_all_loop(t)
    \/ ServerSocket_recv_all_take(t)

\* Faulty variant of TransmitError_from: WouldBlock wrapped like any other error.
TransmitError_from_wraps_all(err) == Io(err)

\* ---------------------------------------------------------- From<IoError>
\* transmit.rs 59-67
TransmitError_from(err) ==
    IF err = "WouldBlock" THEN NoPendingPackets ELSE Io(err)

\* socket.rs 65-73
SocketError_from(err) ==
    CASE err = "WouldBlock" -> NoPendingPackets
      [] OTHER -> Io(err)

From_IoError_for_TransmitError ==
    /\ kind = "IoError"
    /\ \E err \in IoErrorKinds :
          ret' = Returned("TransmitError::from", NoneId, TransmitError_from(err), IdleCall, err)
    /\ UNCHANGED <<engine, kind, socket, sockErr, connections, owner, poisoned, call,
                   nextUid, history>>

From_IoError_for_SocketError ==
    /\ kind = "IoError"
    /\ \E err \in IoErrorKinds :
          ret' = Returned("SocketError::from", NoneId, SocketError_from(err), IdleCall, err)
    /\ UNCHANGED <<engine, kind, socket, sockErr, connections, owner, poisoned, call,
                   nextUid, history>>

\* ------------------------------------------------------ Connection engine
\* A call on the connection engine that returned `result`.
Called(op, result) == [NoApi EXCEPT !.op = op, !.result = result]

\* Time passes.
Tick ==
    /\ kind \in {"Connection::connect", "Connection"}
    /\ now < MaxTime
    /\ now' = now + 1
    /\ api' = NoApi
    /\ UNCHANGED <<kind, receiver, endpoint, pending, connection, net, written, test>>

\* connection.rs 98-131.  send_ok: whether endpoint.send_to succeeded.
Connection_connect(remote, payload, handshake_id, send_ok) ==
    /\ kind = "Connection::connect"
    /\ Len(endpoint.sent) < MaxDatagrams
    /\ LET max_payload_length == endpoint.max_datagram_length - HeaderSize
           packet_buffer == request_packet(handshake_id, payload)
           called(result) == [Called("connect", result) EXCEPT
                                 !.remote = remote, !.payload = payload]
       IN IF payload_too_large(payload.len, max_payload_length)
            THEN /\ api' = called("PayloadTooLarge")
                 /\ UNCHANGED <<endpoint, pending>>
          ELSE IF ~send_ok
            THEN /\ api' = [called("Io") EXCEPT !.error = "Other"]
                 /\ UNCHANGED <<endpoint, pending>>
          ELSE /\ endpoint' = [endpoint EXCEPT !.sent =
                                  Append(@, request_datagram(remote, packet_buffer))]
               /\ pending' = PendingConnection_new(remote, now, payload, handshake_id)
               /\ api' = called("Ok")
    /\ UNCHANGED <<kind, receiver, now, connection, net, written, test>>

\* connection.rs 77-93
Connection_opened(connection_id, remote) ==
    /\ kind = "Connection"
    /\ ~connection.some
    /\ connection' = [some |-> TRUE, connection_id |-> connection_id,
                      remote |-> remote, status |-> "Open",
                      last_sent_packet_time |-> now,
                      last_received_packet_time |-> now,
                      received_packet_ack_id |-> 0,
                      received_packet_ack_mask |-> {}]
    /\ api' = Called("opened", "Ok")
    /\ UNCHANGED <<kind, receiver, now, endpoint, pending, net, written, test>>

\* connection.rs 135-137
Connection_status ==
    /\ kind = "Connection"
    /\ connection.some
    /\ api' = Called("status", connection.status)
    /\ UNCHANGED <<kind, receiver, now, endpoint, pending, connection, net, written, test>>

\* The peer's packets for the local end (spec.md 4.4, 4.5): for a pending
\* connection an ACCEPT_CONNECTION for connection id 0 answering some nonce,
\* for an open one a packet of connection 1 with a packet index.
PeerHeaders ==
    IF kind = "PendingConnection"
      THEN {[DefaultHeader EXCEPT !.flags = ACCEPT_CONNECTION, !.prelude = n,
                                  !.hash = build_hasher(0, ACCEPT_CONNECTION)] :
              n \in Nonces}
      ELSE {[DefaultHeader EXCEPT !.connection_id = 1, !.packet_index = i,
                                  !.hash = build_hasher(1, 0)] :
              i \in {1, 2}}

Peer_send ==
    /\ kind \in {"PendingConnection", "Connection"}
    /\ Len(net) < MaxDatagrams
    /\ \E header \in PeerHeaders :
          net' = Append(net, [addr |-> "remote", len |-> PACKET_SIZE,
                              header |-> header, payload |-> NoPayload])
    /\ api' = NoApi
    /\ UNCHANGED <<kind, receiver, now, endpoint, pending, connection, written, test>>

\* connection.rs 284-286: todo!() panics; self is consumed by the call.
PendingConnection_try_promote ==
    /\ kind = "PendingConnection"
    /\ pending.some
    /\ pending' = NonePending
    /\ api' = Called("try_promote", "Panic")
    /\ UNCHANGED <<kind, receiver, now, endpoint, connection, net, written, test>>

\* connection.rs 152-154: todo!() panics.
Connection_pop_parcel ==
    /\ kind = "Connection"
    /\ connection.some
    /\ api' = Called("pop_parcel", "Panic")
    /\ UNCHANGED <<kind, receiver, now, endpoint, pending, connection, net, written, test>>

\* connection.rs 190-192: todo!() panics.
Connection_write_bytes_to_stream(bytes) ==
    /\ kind = "Connection"
    /\ connection.some
    /\ Len(written) < MaxDatagrams
    /\ written' = written \o bytes
    /\ api' = [Called("write_bytes_to_stream", "Panic") EXCEPT !.bytes = bytes]
    /\ UNCHANGED <<kind, receiver, now, endpoint, pending, connection, net, test>>

\* connection.rs 229-231: todo!() panics.
Connection_read_from_stream ==
    /\ kind = "Connection"
    /\ connection.some
    /\ api' = Called("read_from_stream", "Panic")
    /\ UNCHANGED <<kind, receiver, now, endpoint, pending, connection, net, written, test>>

Connection_step ==
    \/ \E remote \in Addrs, payload \in Payloads(endpoint.max_datagram_length),
          handshake_id \in Nonces, send_ok \in BOOLEAN :
          Connection_connect(remote, payload, handshake_id, send_ok)
    \/ \E connection_id \in ConnectionIds \ {0}, remote \in Addrs :
          Connection_opened(connection_id, remote)
    \/ Connection_status
    \/ PendingConnection_try_promote
    \/ Connection_pop_parcel
    \/ \E bytes \in {<<"a">>, <<"b">>} : Connection_write_bytes_to_stream(bytes)
    \/ Connection_read_from_stream

\* ------------------------------------------------- generic_transmit_test
\* The two transmitters the test is given (spec.md 4.2).  send_to returns
\* the number of bytes sent and the datagram reaches the receiver, before or
\* after the ones on their way; an implementation at fault may report
\* another count, filter the datagram, cut or alter its bytes, name another
\* origin, or merge it with its predecessor.
Transmit_send_to(q, data, origin) ==
    LET d == [data |-> data, origin |-> origin]
        sound(n) == [result |-> Len(data), net |-> n, faulted |-> FALSE]
        fault(r, n) == [result |-> r, net |-> n, faulted |-> TRUE]
    IN {sound(Append(q, d)), sound(<<d>> \o q)}
         \cup {fault(Len(data) + 1, Append(q, d)),
               fault(Len(data), q),
               fault(Len(data), Append(q, [d EXCEPT !.data = SubSeq(data, 1, Len(data) - 1)])),
               fault(Len(data), Append(q, [d EXCEPT !.data = [data EXCEPT ![Len(data)] = "?"]])),
               fault(Len(data), Append(q, [d EXCEPT !.origin = "elsewhere"]))}
         \cup (IF q = <<>> THEN {}
               ELSE {fault(Len(data),
                           [q EXCEPT ![Len(q)] = [@ EXCEPT !.data = @ \o data]])})

\* try_recv_from: the next datagram is written over the start of the buffer
\* and its length and origin returned; NoPendingPackets without one.
Transmit_try_recv_from(q, buffer) ==
    IF q = <<>>
      THEN [ok |-> FALSE, result |-> <<0, "">>, buffer |-> buffer, net |-> q]
      ELSE LET n == Min(Len(Head(q).data), Len(buffer))
           IN [ok |-> TRUE, result |-> <<n, Head(q).origin>>,
               buffer |-> [i \in 1 .. Len(buffer) |->
                              IF i <= n THEN Head(q).data[i] ELSE buffer[i]],
               net |-> Tail(q)]

\* Faulty variant of recv_is: the origin is not compared.
recv_is_length_only(recv_result, datagram, addr) == recv_result[1] = Len(datagram)

\* test.rs 38, 39, 43, 44: the result is the datagram's length and the
\* sender's address.
recv_is(recv_result, datagram, addr) == recv_result = <<Len(datagram), addr>>

\* test.rs 37, 40, 42, 45: &buffer[.. datagram.len()] == datagram
starts_with(buffer, datagram) ==
    Len(buffer) >= Len(datagram) /\ SubSeq(buffer, 1, Len(datagram)) = datagram

Failed(at) == [test EXCEPT !.pc = "failed", !.failed_at = at]

\* test.rs 19-23
test_asserts ==
    /\ kind = "generic_transmit_test" /\ test.pc = "asserts"
    /\ test' = IF /\ test.sender_max >= test_max_datagram_length
                  /\ test.receiver_max >= test_max_datagram_length
                  /\ test.receiver_max >= test.sender_max
                 THEN [test EXCEPT !.pc = "send"]
                 ELSE Failed("asserts")
    /\ UNCHANGED <<kind, receiver, now, endpoint, pending, connection, net, api, written>>

\* test.rs 25-28 and 29-32: DATAGRAMS[0], then DATAGRAMS[1], is sent and the
\* returned count compared with its length.
test_send ==
    /\ kind = "generic_transmit_test" /\ test.pc = "send"
    /\ LET datagram == DATAGRAMS[Len(test.sends) + 1] IN
       \E o \in Transmit_send_to(net, datagram, "sender") :
          /\ net' = o.net
          /\ test' = [(IF o.result # Len(datagram) THEN Failed("send")
                       ELSE IF Len(test.sends) = 1 THEN [test EXCEPT !.pc = "recv"]
                       ELSE test)
                      EXCEPT !.sends = Append(@, o.result),
                             !.faulted = @ \/ o.faulted]
    /\ UNCHANGED <<kind, receiver, now, endpoint, pending, connection, api, written>>

\* test.rs 34-36
test_recv ==
    /\ kind = "generic_transmit_test" /\ test.pc = "recv"
    /\ LET o == Transmit_try_recv_from(net, zeros(test.receiver_max)) IN
       /\ net' = o.net
       /\ test' = IF ~o.ok THEN Failed("unwrap")
                  ELSE [test EXCEPT !.pc = "branch", !.buffer = o.buffer,
                                    !.recv_result = o.result,
                                    !.got = Append(@, [data |-> Head(net).data,
                                                       origin |-> Head(net).origin,
                                                       len |-> o.result[1]])]
    /\ UNCHANGED <<kind, receiver, now, endpoint, pending, connection, api, written>>

\* test.rs 37-46: `first` is the datagram the first receive is taken for,
\* `second` the one then expected.
test_branch ==
    /\ kind = "generic_transmit_test" /\ test.pc = "branch"
    /\ LET is_first == starts_with(test.buffer, DATAGRAMS[1])
           first == IF is_first THEN DATAGRAMS[1] ELSE DATAGRAMS[2]
           second == IF is_first THEN DATAGRAMS[2] ELSE DATAGRAMS[1]
           o == Transmit_try_recv_from(net, test.buffer)
       IN IF ~(starts_with(test.buffer, first)
                 /\ recv_is(test.recv_result, first, "sender"))
            THEN test' = Failed("first") /\ net' = net
            ELSE /\ net' = o.net
                 /\ test' = [(IF o.ok /\ recv_is(o.result, second, "sender")
                                   /\ starts_with(o.buffer, second)
                                THEN [test EXCEPT !.pc = "passed"]
                                ELSE Failed("second"))
                             EXCEPT !.buffer = o.buffer,
                                    !.got = IF o.ok
                                              THEN Append(@, [data |-> Head(net).data,
                                                              origin |-> Head(net).origin,
                                                              len |-> o.result[1]])
                                              ELSE @]
    /\ UNCHANGED <<kind, receiver, now, endpoint, pending, connection, api, written>>

generic_transmit_test ==
    \/ test_asserts
    \/ test_send
    \/ test_recv
    \/ test_branch

Next ==
    \/ Deliver
    \/ RaiseError
    \/ \E t \in Threads : ServerUdpEndpoint_step(t)
    \/ \E t \in Threads : Socket_step(t)
    \/ From_IoError_for_TransmitError
    \/ From_IoError_for_SocketError
    \/ Tick
    \/ Peer_send
    \/ Connection_step
    \/ generic_transmit_test

Spec == Init /\ [][Next]_vars

\* A thread inside a receive loop keeps running: the socket is non-blocking
\* and nothing in the loop waits.
FairSpec ==
    /\ Spec
    /\ \A t \in Threads :
          /\ WF_vars(ServerUdpEndpoint_recv_all_loop(t))
          /\ WF_vars(ClientSocket_recv_all_loop(t))
          /\ WF_vars(ServerSocket_recv_all_loop(t))

\* ================================================================ claims
ServerEndpoint == kind = "ServerUdpEndpoint"

\* Thread t's step consumed a datagram in the receive loop.
Drains(t) == call[t].pc = "loop" /\ call'[t].drained = call[t].drained + 1
\* Thread t's step ended its recv_all call from the given place.
Returns(t, from) == call[t].pc = from /\ call'[t].pc = "idle"
\* What a call handed to its caller beyond the bytes the buffer held before.
Appended(r) == SubSeq(r.buffer, r.original_length + 1, Len(r.buffer))
\* A datagram on the wire that is a verified packet of the fixed size.
Verified(d) == d.len = PACKET_SIZE /\ valid_hash(d.pkt)
\* A chunk of received bytes that is not a verified packet of the fixed size.
Malformed(chunk) ==
    chunk.src = "wire" /\ (chunk.len # PACKET_SIZE \/ ~valid_hash(chunk.pkt))
Chunks(q) == {q[i] : i \in 1 .. Len(q)}

\* C1: on a ServerUdpEndpoint, a verified full-size datagram whose
\* connection_id B has a bucket is appended to B's bucket and to no other,
\* whichever call drained it; a successful recv_all(A) returns only packets
\* of A, and a recv_all(B) that reaches its bucket returns all of B's queue.
C1_RoutedToOwnBucket ==
    [][ServerEndpoint =>
        /\ \A t \in Threads :
             (Drains(t) /\ Verified(Head(socket))
                /\ HashMap_contains(connections, Head(socket).pkt.connection_id))
             => connections' =
                  [connections EXCEPT ![Head(socket).pkt.connection_id] =
                                         Append(@, WireChunk(Head(socket)))]
        /\ \A t \in Threads :
             (Returns(t, "take") /\ HashMap_contains(connections, call[t].connection_id))
             => Appended(ret') = connections[call[t].connection_id]
        /\ (ret'.op = "recv_all" /\ ret'.result.tag = "Ok")
             => \A c \in Chunks(Appended(ret')) : c.pkt.connection_id = ret'.connection_id
       ]_vars

\* C1 witness: a call for id A has just drained a verified packet of another
\* id B, and the packet sits in B's bucket.
C1_Witness ==
    /\ ServerEndpoint
    /\ \E t \in Threads, b \in DOMAIN connections :
          /\ call[t].pc = "loop"
          /\ call[t].connection_id # b
          /\ call[t].drained > 0
          /\ connections[b] # <<>>
          /\ connections[b][Len(connections[b])] = call[t].buffer[Len(call[t].buffer)]

C3_AllowIsIdempotent ==
    [][\A t \in Threads, id \in ConnectionIds :
          (ServerUdpEndpoint_allow_connection_id(t, id)
             /\ HashMap_contains(connections, id))
          => connections' = connections
      ]_vars

\* C4 (as claimed): bytes of a datagram of another length than PACKET_SIZE,
\* or whose hash does not verify, are in no bucket and in no buffer that
\* recv_all left to its caller.
C4_MalformedNeverKept ==
    /\ \A b \in DOMAIN connections : \A c \in Chunks(connections[b]) : ~Malformed(c)
    /\ ret.op = "recv_all" => \A c \in Chunks(ret.buffer) : ~Malformed(c)

\* C5: recv_all(id) on ServerUdpEndpoint hands the whole queue of id's
\* bucket to the caller and leaves the bucket present and empty; no step of
\* a recv_all call removes a queued packet without handing it over, and no
\* packet is handed over twice.
C5_TakenExactlyOnce ==
    [][ServerEndpoint =>
        /\ \A t \in Threads :
             (Returns(t, "take") /\ HashMap_contains(connections, call[t].connection_id))
             => /\ ret'.buffer = SubSeq(call[t].buffer, 1, call[t].original_length)
                                   \o connections[call[t].connection_id]
                /\ connections' = [connections EXCEPT ![call[t].connection_id] = <<>>]
                /\ ret'.result.tag = "Ok"
                     => ret'.result.n = Bytes(connections[call[t].connection_id])
        /\ (\E t \in Threads : call[t].pc # "idle" /\ call'[t] # call[t])
             => \A u \in Queued :
                   \/ u \in Queued' /\ delivered'[u] = 0
                   \/ u \notin Queued' /\ delivered'[u] = 1
                        /\ u \in Uids(Appended(ret'))
        /\ \A u \in DOMAIN delivered : delivered'[u] <= 1
       ]_vars

\* C5 witness: a recv_all returned two queued packets and left its bucket
\* empty.
C5_Witness ==
    /\ ServerEndpoint
    /\ ret.op = "recv_all" /\ ret.result.tag = "Ok"
    /\ Len(Appended(ret)) = 2
    /\ connections[ret.connection_id] = <<>>
    /\ \A u \in Uids(Appended(ret)) : delivered[u] = 1

\* C6 (as claimed): a verified REQUEST_CONNECTION datagram with connection
\* id 0 that matches no bucket is retained by the endpoint, not dropped.
C6_HandshakeRetained ==
    [][ServerEndpoint =>
        \A t \in Threads :
           (Drains(t) /\ Verified(Head(socket))
              /\ Head(socket).pkt.connection_id = 0
              /\ Head(socket).pkt.flags = REQUEST_CONNECTION
              /\ ~HashMap_contains(connections, 0))
           => Head(socket).uid \notin dropped'
      ]_vars

\* C7 (as claimed): no call on the endpoint panics, so the Mutex is never
\* poisoned and every later call can lock it and return a value.
C7_NoPanicUnderLock ==
    ServerEndpoint => ~poisoned /\ ret.result.tag # "Panic"

\* C8: calls on one ServerUdpEndpoint are serialized: while a thread is
\* inside recv_all, no step of another thread changes the bucket map, takes
\* a datagram out of the socket or enters a call of its own.
C8_Serialized ==
    [][ServerEndpoint =>
        \A t \in Threads :
           (call[t].pc # "idle" /\ call'[t] = call[t])
           => /\ connections' = connections
              /\ Len(socket') >= Len(socket)
              /\ SubSeq(socket', 1, Len(socket)) = socket
              /\ \A other \in Threads \ {t} :
                    call[other].pc = "idle" /\ call'[other].pc = "idle"
              /\ owner = t /\ owner' = t
      ]_vars

\* C8 witness: a thread is in the middle of a drain (a datagram consumed,
\* another still in the socket) while the other thread is outside.
C8_Witness ==
    /\ ServerEndpoint
    /\ \E t \in Threads :
          /\ call[t].pc = "loop" /\ call[t].drained > 0 /\ socket # <<>>
          /\ owner = t
          /\ HashMap_contains(connections, call[t].connection_id)

\* C9: recv_all returns NoPendingPackets exactly when the socket was drained
\* to WouldBlock and nothing is there for the requested id (server: its
\* bucket is empty; client: nothing was accepted); when something is there
\* it returns Ok with the positive number of bytes appended.
C9_NoPendingIffNothing ==
    [][\A t \in Threads :
        /\ (kind \in {"ServerUdpEndpoint", "ServerSocket"} /\ Returns(t, "take"))
           => LET id == call[t].connection_id
                  has == HashMap_contains(connections, id)
              IN /\ ret'.result = NoPendingPackets <=> (has /\ connections[id] = <<>>)
                 /\ ret'.result.tag = "Ok" <=> (has /\ connections[id] # <<>>)
                 /\ ret'.result.tag = "Ok"
                      => /\ ret'.result.n > 0
                         /\ ret'.result.n = Bytes(Appended(ret'))
        /\ (kind \in {"ServerUdpEndpoint", "ServerSocket"} /\ Returns(t, "loop"))
           => ret'.result.tag \notin {"NoPendingPackets", "Ok"}
        /\ (kind = "ClientSocket" /\ Returns(t, "loop"))
           => LET wouldBlock == socket = <<>> /\ sockErr = NoError
                  got == SubSeq(call[t].buffer, call[t].original_length + 1,
                                Len(call[t].buffer))
              IN /\ ret'.result = NoPendingPackets <=> (wouldBlock /\ got = <<>>)
                 /\ ret'.result.tag = "Ok" <=> (wouldBlock /\ got # <<>>)
                 /\ ret'.result.tag = "Ok"
                      => /\ ret'.result.n > 0
                         /\ ret'.result.n = Bytes(got)
                         /\ Appended(ret') = got
      ]_vars

\* C9 witness: a ClientSocket call drained datagrams, accepted none of them
\* and returned NoPendingPackets.
C9_Witness ==
    /\ kind = "ClientSocket"
    /\ ret.op = "recv_all" /\ ret.result = NoPendingPackets
    /\ ret.drained > 0

\* C10: a substrate error other than WouldBlock ends recv_all with Io of
\* that same error; WouldBlock ends the drain and is never returned as Io;
\* both From<IoError> conversions map WouldBlock to NoPendingPackets and
\* every other error to Io of it.
C10_IoErrorsPropagate ==
    [][/\ \A t \in Threads :
            call[t].pc = "loop" =>
              /\ (sockErr # NoError /\ call'[t] # call[t])
                   => Returns(t, "loop") /\ ret'.result = Io(sockErr)
              /\ (sockErr = NoError /\ socket = <<>> /\ call'[t] # call[t])
                   => /\ ret'.result.tag # "Io"
                      /\ call'[t].pc \in {"take", "idle"}
              /\ (Returns(t, "loop") /\ ret'.result.tag = "Io")
                   => /\ ret'.result.kind # "WouldBlock"
                      /\ \E o \in recv_from(socket, sockErr) :
                            ~o.ok /\ o.kind = ret'.result.kind
       /\ ret'.op \in {"TransmitError::from", "SocketError::from"}
            => /\ ret'.error = "WouldBlock" => ret'.result = NoPendingPackets
               /\ ret'.error # "WouldBlock" => ret'.result = Io(ret'.error)
      ]_vars

\* C10 witness: a recv_all that had drained a datagram met ConnectionReset
\* and returned it as Io.
C10_Witness ==
    /\ ret.op = "recv_all"
    /\ ret.result = Io("ConnectionReset")
    /\ ret.drained > 0

\* A step that is a call of Connection::connect.
Connects == api'.op = "connect"
\* The datagram the step handed to the endpoint's send_to.
LastSent == endpoint'.sent[Len(endpoint'.sent)]
SendsOne ==
    /\ Len(endpoint'.sent) = Len(endpoint.sent) + 1
    /\ SubSeq(endpoint'.sent, 1, Len(endpoint.sent)) = endpoint.sent

\* C11: connect returns PayloadTooLarge exactly when the payload is longer
\* than max_datagram_length minus the header size; it then sends nothing and
\* creates no PendingConnection; a payload within the bound is handed to
\* send_to (one datagram goes out unless send_to itself fails with Io).
C11_PayloadTooLargeExactly ==
    [][Connects =>
        LET bound == endpoint.max_datagram_length - HeaderSize IN
        /\ api'.result = "PayloadTooLarge" <=> api'.payload.len > bound
        /\ api'.result = "PayloadTooLarge"
             => endpoint'.sent = endpoint.sent /\ pending' = pending
        /\ api'.payload.len <= bound
             => \/ api'.result = "Ok" /\ SendsOne /\ pending'.some
                \/ api'.result = "Io" /\ api'.error # "WouldBlock"
                     /\ endpoint'.sent = endpoint.sent /\ pending' = pending
      ]_vars

\* C11 witness: after a payload that exactly fills the datagram was sent,
\* a payload one byte longer was refused.
C11_Witness ==
    /\ api.op = "connect" /\ api.result = "PayloadTooLarge"
    /\ api.payload.len = endpoint.max_datagram_length - HeaderSize + 1
    /\ Len(endpoint.sent) = 1
    /\ endpoint.sent[1].payload.len = endpoint.max_datagram_length - HeaderSize
    /\ pending.some

\* C12: a successful connect sends exactly one datagram, to the remote
\* address, with connection id 0, the REQUEST_CONNECTION flag, the generated
\* nonce as prelude and the payload unchanged; the PendingConnection it
\* returns holds that nonce and payload and two equal time stamps.
C12_RequestCarriesNonceAndPayload ==
    [][(Connects /\ api'.result = "Ok") =>
        /\ SendsOne
        /\ LastSent.addr = api'.remote
        /\ LastSent.header.connection_id = 0
        /\ LastSent.header.flags = REQUEST_CONNECTION
        /\ LastSent.header.prelude \in Nonces
        /\ LastSent.header.payload_length = api'.payload.len
        /\ LastSent.payload = api'.payload
        /\ pending'.some
        /\ pending'.remote = api'.remote
        /\ pending'.handshake_id = LastSent.header.prelude
        /\ pending'.payload = api'.payload
        /\ pending'.last_sent_packet_time = pending'.last_communication_time
      ]_vars

\* C12 witness: a second successful connect, later and to another address,
\* with a payload and the other nonce.
C12_Witness ==
    /\ api.op = "connect" /\ api.result = "Ok"
    /\ Len(endpoint.sent) = 2
    /\ endpoint.sent[1].addr # endpoint.sent[2].addr
    /\ endpoint.sent[1].header.prelude # endpoint.sent[2].header.prelude
    /\ endpoint.sent[1].payload.len = 0
    /\ endpoint.sent[2].payload.len > 0
    /\ pending.handshake_id = endpoint.sent[2].header.prelude
    /\ pending.last_sent_packet_time > 0

\* C13 (as claimed): the datagram a successful connect sends has the
\* endpoint's max_datagram_length as its length and a hash that verifies.
C13_RequestIsAdmissible ==
    [][(Connects /\ api'.result = "Ok") =>
        /\ LastSent.len = endpoint.max_datagram_length
        /\ valid_hash(LastSent.header)
      ]_vars

\* C14 (as claimed): status() called when no packet arrived for longer than
\* timeout returns Lost.
C14_LostAfterTimeout ==
    (api.op = "status" /\ now - connection.last_received_packet_time > timeout)
    => api.result = "Lost"

\* A datagram in `net` that the receiving side admits.
Admitted(d) == accepted(Min(d.len, PACKET_SIZE), d.header)
\* An admitted ACCEPT_CONNECTION answering the pending connection's nonce.
MatchingAccept(d) ==
    /\ Admitted(d)
    /\ d.header.connection_id = 0
    /\ d.header.flags = ACCEPT_CONNECTION
    /\ d.header.prelude = pending.handshake_id

\* C17 (as claimed): try_promote turns the PendingConnection into an Open
\* Connection when an admitted ACCEPT_CONNECTION with the nonce of its
\* request has arrived, and into none when no such packet has.
C17_PromotedByMatchingAccept ==
    [][(pending.some /\ api'.op = "try_promote") =>
        IF \E i \in DOMAIN net : MatchingAccept(net[i])
          THEN api'.result = "Ok" /\ connection'.some /\ connection'.status = "Open"
          ELSE ~connection'.some
      ]_vars

\* Index i is acknowledged by the connection's ack fields: it is the ack id,
\* or bit b of the mask with ack id - (b + 1) = i in 16-bit arithmetic.
Covered(c, i) ==
    \/ i = c.received_packet_ack_id
    \/ \E b \in c.received_packet_ack_mask :
          (c.received_packet_ack_id + 65536 - (b + 1)) % 65536 = i

\* C18 (as claimed): once the connection has taken in the packets that
\* arrived for it (pop_parcel receives pending network packets), the index
\* of every admitted one is its ack id or a set bit of its ack mask.
C18_AckCoverage ==
    [][(connection.some /\ api'.op = "pop_parcel") =>
        \A i \in DOMAIN net :
           (Admitted(net[i]) /\ net[i].header.connection_id = connection.connection_id)
           => Covered(connection', net[i].header.packet_index)
      ]_vars

IsPrefix(a, b) == Len(a) <= Len(b) /\ SubSeq(b, 1, Len(a)) = a

\* C19 (as claimed): write_bytes_to_stream accepts the bytes, and
\* read_from_stream returns bytes that continue, in order, the bytes
\* written so far.
C19_StreamOrdered ==
    [][/\ api'.op = "write_bytes_to_stream" => api'.result = "Ok"
       /\ api'.op = "read_from_stream"
            => api'.result = "Ok" /\ IsPrefix(api'.bytes, written')
      ]_vars

\* What a datagram sent by the sender must be received as.
Received(datagram) == [data |-> datagram, origin |-> "sender", len |-> Len(datagram)]

InArrivalOrder(q) == \A i, j \in 1 .. Len(q) : i < j => q[i].uid < q[j].uid

\* C20: every bucket of the server endpoint holds its packets in the order
\* they were received from the socket, and recv_all returns them in that
\* order, also when they were drained by several calls.
C20_ReceivedOrder ==
    [][ServerEndpoint =>
        /\ \A b \in DOMAIN connections' : InArrivalOrder(connections'[b])
        /\ (ret'.op = "recv_all" /\ ret'.result.tag = "Ok")
             => InArrivalOrder(Appended(ret'))
      ]_vars

\* C20 witness: a recv_all returned two packets of which its own drain
\* received only one; the other was queued by an earlier call.
C20_Witness ==
    /\ ServerEndpoint
    /\ ret.op = "recv_all" /\ ret.result.tag = "Ok"
    /\ Len(Appended(ret)) = 2
    /\ ret.drained = 1

\* What the receiver's test of a received datagram sees: the size recv_from
\* reported is PACKET_SIZE and the hash of the received bytes verifies.
FullSizeVerified(d) == accepted(Min(d.len, PACKET_SIZE), d.pkt)
\* Thread t's step received a datagram in ClientSocket's loop.
ClientDrains(t) ==
    /\ kind = "ClientSocket"
    /\ call[t].pc = "loop" /\ call'[t].pc = "loop"
    /\ call'[t].drained = call[t].drained + 1

C22_BufferFrame ==
    (ServerEndpoint /\ ret.op = "recv_all" /\ ret.result.tag # "Panic")
    => /\ SubSeq(ret.buffer, 1, ret.original_length) \in {<<>>, <<PriorChunk>>}
       /\ Bytes(ret.buffer) = PACKET_SIZE * ret.original_length + ret.result.n

\* A drain of the server endpoint or of the client socket.
Draining(t) == kind \in {"ServerUdpEndpoint", "ClientSocket"} /\ call[t].pc = "loop"

\* C23: an iteration of the receive loop either takes exactly one datagram
\* out of the socket and goes on, or ends the loop having taken none; and
\* a loop that was entered ends, whatever the datagrams are.
C23_DrainTerminates ==
    /\ [][\A t \in Threads :
            (Draining(t) /\ call'[t] # call[t])
            => \/ /\ call'[t].pc = "loop"
                  /\ socket # <<>>
                  /\ socket' = Tail(socket)
                  /\ call'[t].drained = call[t].drained + 1
               \/ /\ call'[t].pc # "loop"
                  /\ Len(socket') >= Len(socket) - 1
         ]_vars
    /\ \A t \in Threads : Draining(t) ~> (call[t].pc # "loop")

\* C23 witness: a drain ended after it took two datagrams out of the socket
\* and kept neither.
C23_Witness ==
    /\ kind \in {"ServerUdpEndpoint", "ClientSocket"}
    /\ ret.op = "recv_all" /\ ret.result = NoPendingPackets
    /\ ret.drained = 2
    /\ Cardinality(dropped) = 2
    /\ socket = <<>>

\* C24 (as claimed): when ServerSocket::recv_all receives a verified packet
\* whose connection id has no entry in connections, it drops the packet and
\* its loop goes on.
C24_MissIsDropped ==
    [][kind = "ServerSocket" =>
        \A t \in Threads :
           (/\ call[t].pc = "loop" /\ call'[t] # call[t]
            /\ sockErr = NoError /\ socket # <<>>
            /\ Verified(Head(socket))
            /\ ~HashMap_contains(connections, Head(socket).pkt.connection_id))
           => /\ call'[t].pc = "loop"
              /\ Head(socket).uid \in dropped'
              /\ connections' = connections
              /\ ret'.result.tag # "Panic"
      ]_vars

====
